---- MODULE Spec2Model ----
(***************************************************************************)
(* Orchestration core of the AI-Multiagent backend: the Run/Task state     *)
(* machine driven by create_and_plan_run, execute_run and summarize_run    *)
(* (backend/app/api/runs.py), PlannerAgent.plan, ExecutorAgent.run and     *)
(* ReporterAgent.run (backend/app/agents), and generate_completion         *)
(* (backend/app/core/llm_client.py).                                       *)
(*                                                                         *)
(* One Project, its Runs, Tasks and Logs are the persisted state.  Each    *)
(* request of the API is an invocation carried by one worker of Procs; a   *)
(* worker advances one database commit per step, together with the local   *)
(* computation and the completion calls that lead to it, so invocations    *)
(* interleave exactly where the code commits.                              *)
(*                                                                         *)
(* Modelling decisions                                                     *)
(*  - .with_for_update() holds the row until the next commit, so the read  *)
(*    of is_locked, the test and the commit of is_locked = True form one   *)
(*    atomic step.                                                         *)
(*  - A statement that touches the database may raise (a fault).  A fault  *)
(*    discards the uncommitted changes of the session and the exception    *)
(*    follows Python's try/except/finally.  The two commits that release a *)
(*    lock flag inside a finally block are taken to succeed: the question  *)
(*    settled is whether every exit path reaches them.                     *)
(*  - A string is a character repeated len times, which is enough to tell  *)
(*    slicing, stripping and emptiness apart.                              *)
(***************************************************************************)
EXTENDS Integers, Sequences, FiniteSets, TLC

VARIABLES
    project,   \* the Project row
    runs,      \* the Run rows, by id
    tasks,     \* the Task rows, by id
    logs,      \* the Log rows, by id
    inv,       \* per worker: the local variables of the handler it runs, and
               \* the total_tokens the last completion of the task reported
    last,      \* the request that returned most recently, and its outcome
    faults,    \* database statements that have raised so far
    ops        \* requests admitted so far

vars == <<project, runs, tasks, logs, inv, last, faults, ops>>
db == <<project, runs, tasks, logs>>

----------------------------------------------------------------------------
(* Bounds of the model *)

MaxOps == 3
MaxFaults == 1

Procs == {"w1", "w2"}

(* Program constants *)

MAX_REFINES == 3
INPUT_LIMIT == 4000
SANITIZE_LIMIT == 3000
TOKEN_CAP == 8000

----------------------------------------------------------------------------
(* Strings: ch repeated len times; the empty string is canonical. *)

Str(c, n) == IF n = 0 THEN [ch |-> "", len |-> 0] ELSE [ch |-> c, len |-> n]
EmptyStr == Str("", 0)
Null == [null |-> TRUE]

Min(a, b) == IF a < b THEN a ELSE b

\* s[:k]
Slice(s, k) == Str(s.ch, Min(s.len, k))

\* s.strip(); a JSON document is left as it is (its surrounding blanks do not
\* matter to json.loads)
Strip(s) == IF "json" \in DOMAIN s THEN s
            ELSE IF s.ch = " " THEN EmptyStr ELSE s

\* (s or "")
OrEmpty(s) == IF s = Null \/ s.len = 0 THEN EmptyStr ELSE s

\* sanitize(text): no string of the model matches a BLOCK_PATTERN
sanitize(text) == IF text = Null \/ text.len = 0 THEN EmptyStr
                  ELSE Strip(Slice(text, SANITIZE_LIMIT))

----------------------------------------------------------------------------
(* Sequences *)

Range(s) == {s[k] : k \in DOMAIN s}

----------------------------------------------------------------------------
(* JSON values a completion may carry.  A number is kept in halves so that  *)
(* int() is a real conversion: Num(5) is 2.5 and int(2.5) = 2.              *)

Num(h) == [half |-> h]
NotANumber == [str |-> "x"]

CanInt(v) == "half" \in DOMAIN v
\* int(v) for v >= 0
Int_(v) == v.half \div 2

E1 == [order_index |-> Num(2), input |-> Str("a", 5)]
E2 == [order_index |-> Num(5), input |-> Str("b", INPUT_LIMIT + 1)]
\* another element whose index int() turns into 1 (int(1.5) = 1)
E3 == [order_index |-> Num(3), input |-> Str("c", 2)]
NoIdx == [input |-> Str("a", 5)]
BadIdx == [order_index |-> NotANumber, input |-> Str("a", 5)]

\* the task lists the planning completion may return
Plans == { <<E2, NoIdx, E1>>, <<E1, E3>>, <<E1, BadIdx>>, <<NoIdx>> }

JsonText(v) == [json |-> v]
Garbage == Str("x", 1)
JList == JsonText([type |-> "list"])
JArr(seq) == [arr |-> seq]
\* {"tasks": T}; T = Null stands for a document without the key
JDict(T) == JsonText([type |-> "dict", tasks |-> T])

PlanContents == {Garbage, JList, JDict(JArr(<<>>))}
                \cup {JDict(JArr(T)) : T \in Plans}

\* the texts an execution completion may return
ExecContents == {Str("x", 1)}

\* json.loads(text)
ParseOk(text) == "json" \in DOMAIN text
json_loads(text) == text.json

----------------------------------------------------------------------------
(* CompletionPort: the HTTP reply of the provider and generate_completion.  *)

Reply(code, choices, total, content) ==
    [code |-> code, choices |-> choices, total |-> total, content |-> content]

Replies(Contents) ==
    {Reply(200, TRUE, TOKEN_CAP, c) : c \in Contents}
    \cup {Reply(200, TRUE, TOKEN_CAP + 1, Garbage)}

\* mutant: the cap is one token too high
TokenLimitExceeded_OneMore(total) == total > TOKEN_CAP + 1

\* if total_tokens > 8000
TokenLimitExceeded(total) == total > TOKEN_CAP

generate_completion(reply) ==
    IF reply.code # 200 THEN [err |-> "RuntimeError: OpenRouter Error"]
    ELSE IF ~reply.choices THEN [err |-> "RuntimeError: Empty response"]
    ELSE IF TokenLimitExceeded(reply.total)
         THEN [err |-> "RuntimeError: Token limit exceeded"]
    ELSE [err |-> "none", content |-> Strip(reply.content), usage |-> reply.total]

----------------------------------------------------------------------------
(* Rows of the store (backend/app/models/project.py) *)

NewRun == [status |-> "created", final_summary |-> Null,
           is_archived |-> FALSE, is_locked |-> FALSE]

Task(rid, agent_type, status, input, order_index) ==
    [run_id |-> rid, agent_type |-> agent_type, status |-> status,
     input |-> input, output |-> Null, order_index |-> order_index]

Log(rid, agent_type, level, message) ==
    [run_id |-> rid, agent_type |-> agent_type, level |-> level, message |-> message]

TaskIds(rid) == {t \in DOMAIN tasks : tasks[t].run_id = rid}
RunIds == DOMAIN runs

OrderIndexOf(t) == tasks[t].order_index

\* order_by(Task.order_index): the orderings of the set S of Task ids that are
\* ascending in order_index; rows with equal indexes come in any order
Orderings(S) ==
    {s \in [1..Cardinality(S) -> S] :
        /\ Range(s) = S
        /\ \A a, b \in 1..Cardinality(S) :
             a < b => OrderIndexOf(s[a]) <= OrderIndexOf(s[b])}

----------------------------------------------------------------------------
(* An invocation: the local variables of one request handler. *)

Fresh == [pc |-> "idle", op |-> "none", rid |-> 0, ex |-> "none",
          current |-> Null, hist |-> <<>>, pend |-> <<>>,
          loaded |-> <<>>, i |-> 0, previous_context |-> <<>>, result |-> Null,
          prompt |-> Null, reported |-> 0, usage |-> 0, e |-> "none",
          frozen |-> {}]

Begin(op, rid, pc) == [Fresh EXCEPT !.op = op, !.rid = rid, !.pc = pc]

\* the outcome of a request: what it returned or raised
Returned(op, rid, result) == [op |-> op, rid |-> rid, result |-> result]

Outcome(ex) == IF ex = "none" THEN "ok" ELSE ex

Init ==
    /\ project = [is_locked |-> FALSE]
    /\ runs = <<>>
    /\ tasks = <<>>
    /\ logs = <<>>
    /\ inv = [p \in Procs |-> Fresh]
    /\ last = Returned("none", 0, "none")
    /\ faults = 0
    /\ ops = 0

\* a database statement raises
CanFault == faults < MaxFaults

\* a request is taken by the first idle worker
Idle(p) == inv[p].pc = "idle"
Takes(p) == Idle(p) /\ (p = "w2" => ~Idle("w1"))

\* the request is admitted (it passed its lock test, found its rows)
Admit == ops < MaxOps /\ ops' = ops + 1

----------------------------------------------------------------------------
(* PlannerAgent.plan (backend/app/agents/planner.py) *)

\* mutant: the loop allows one correction more
MayRefine_OneMore(n) == n <= MAX_REFINES

\* mutant: the loop allows one correction fewer
MayRefine_OneLess(n) == n < MAX_REFINES - 1

\* range(self.MAX_REFINES): another pass of the correction loop is left
MayRefine(n) == n < MAX_REFINES

JsonKind(text) == IF ParseOk(text) THEN "json" ELSE "malformed"

\* The completion calls of plan: the first call and the correction loop.  Each
\* result is [hist, current, err]: the kinds of the responses received, the last
\* response, and whether the last call raised.  n is the number of loop passes
\* that have called for a correction.
RECURSIVE RefineLoop(_, _, _)
RefineLoop(hist, current, n) ==
    IF ParseOk(current) \/ ~MayRefine(n)
    THEN {[hist |-> hist, current |-> current, err |-> "none"]}
    ELSE UNION { LET c == generate_completion(reply) IN
                 IF c.err # "none"
                 THEN {[hist |-> Append(hist, "raised"), current |-> current,
                        err |-> "RuntimeError"]}
                 ELSE RefineLoop(Append(hist, JsonKind(c.content)), c.content, n + 1)
               : reply \in Replies(PlanContents) }

Completions ==
    UNION { LET c == generate_completion(reply) IN
            IF c.err # "none"
            THEN {[hist |-> <<"raised">>, current |-> Null, err |-> "RuntimeError"]}
            ELSE RefineLoop(<<JsonKind(c.content)>>, c.content, 0)
          : reply \in Replies(PlanContents) }

\* "order_index" in t and "input" in t
HasKeys(t) == "order_index" \in DOMAIN t /\ "input" \in DOMAIN t

\* mutant: the input is stored without the [:4000] slice
PlannedTask_Uncut(rid, t) ==
    Task(rid, "executor", "pending", t.input, Int_(t.order_index))

\* Task(run_id=..., agent_type="executor", status="pending",
\*      input=str(t["input"])[:4000], order_index=int(t["order_index"]))
PlannedTask(rid, t) ==
    Task(rid, "executor", "pending", Slice(t.input, INPUT_LIMIT), Int_(t.order_index))

\* the loop over the returned list: the Tasks added to the session, and the
\* exception that ended the loop early, if any
RECURSIVE BuildTasks(_, _)
BuildTasks(rid, elems) ==
    IF elems = <<>> THEN [created |-> <<>>, ex |-> "none"]
    ELSE LET t == Head(elems) IN
         IF ~HasKeys(t) THEN BuildTasks(rid, Tail(elems))
         ELSE IF ~CanInt(t.order_index) THEN [created |-> <<>>, ex |-> "ValueError"]
         ELSE LET rest == BuildTasks(rid, Tail(elems)) IN
              [created |-> <<PlannedTask(rid, t)>> \o rest.created, ex |-> rest.ex]

\* what follows the correction loop, up to the commit: the exception raised, or
\* the Tasks added to the session
PlanOutcome(rid, current) ==
    IF ~ParseOk(current) THEN [created |-> <<>>, ex |-> "StructuralError"]
    ELSE LET data == json_loads(current) IN
         IF data.type # "dict" THEN [created |-> <<>>, ex |-> "AttributeError"]
         ELSE IF "arr" \notin DOMAIN data.tasks \/ data.tasks.arr = <<>>
              THEN [created |-> <<>>, ex |-> "InvalidTasks"]
         ELSE BuildTasks(rid, data.tasks.arr)

\* plan(run, title, description): the completion calls, the Tasks, then
\* run.status = "planned"; db.commit()
PlannerAgent_plan(p) ==
    /\ inv[p].pc = "pl_plan"
    /\ \E c \in Completions :
         LET o == IF c.err # "none" THEN [created |-> <<>>, ex |-> c.err]
                  ELSE PlanOutcome(inv[p].rid, c.current)
         IN IF o.ex # "none"
            THEN /\ inv' = [inv EXCEPT ![p].pc = "cp_finally", ![p].ex = o.ex,
                              ![p].pend = o.created, ![p].hist = c.hist,
                              ![p].current = c.current]
                 /\ UNCHANGED <<runs, tasks>>
            ELSE /\ tasks' = tasks \o o.created
                 /\ runs' = [runs EXCEPT ![inv[p].rid].status = "planned"]
                 /\ inv' = [inv EXCEPT ![p].pc = "cp_finally", ![p].hist = c.hist,
                              ![p].current = c.current]
    /\ UNCHANGED <<project, logs, last, faults, ops>>

\* the planner's commit raises: the session is rolled back
PlannerCommitFault(p) ==
    /\ inv[p].pc = "pl_plan"
    /\ CanFault
    /\ faults' = faults + 1
    /\ \E c \in Completions :
         /\ c.err = "none"
         /\ PlanOutcome(inv[p].rid, c.current).ex = "none"
         /\ inv' = [inv EXCEPT ![p].pc = "cp_finally", ![p].ex = "DbError",
                      ![p].hist = c.hist, ![p].current = c.current]
    /\ UNCHANGED <<project, runs, tasks, logs, last, ops>>

----------------------------------------------------------------------------
(* create_and_plan_run (backend/app/api/runs.py) *)

CreatePcs == {"cp_archive", "cp_create", "pl_plan", "cp_finally"}

\* mutant: the test of project.is_locked is missing
ProjectLocked_Ignored(pr) == FALSE

\* if project.is_locked
ProjectLocked(pr) == pr.is_locked

\* mutant: the prior Runs are not archived
ArchiveRuns_Skipped(rs) == rs

\* db.query(Run).filter(project_id, is_archived == False).update({"is_archived": True})
ArchiveRuns(rs) == [r \in DOMAIN rs |-> [rs[r] EXCEPT !.is_archived = TRUE]]

\* mutant: the flag is cleared at the end of the body instead of in finally
CreateCleanup_OnSuccess(pr, ex) ==
    IF ex = "none" THEN [pr EXCEPT !.is_locked = FALSE] ELSE pr

\* finally: project.is_locked = False, whatever exception ex is in flight
CreateCleanup(pr, ex) == [pr EXCEPT !.is_locked = FALSE]

\* 409: the project is locked
CreateConflict(p) ==
    /\ Takes(p)
    /\ ProjectLocked(project)
    /\ last' = Returned("create", 0, "Conflict")
    /\ UNCHANGED <<project, runs, tasks, logs, inv, faults, ops>>

\* project.is_locked = True; db.commit()
CreateAcquire(p) ==
    /\ Takes(p)
    /\ ~ProjectLocked(project)
    /\ Admit
    /\ project' = [project EXCEPT !.is_locked = TRUE]
    /\ inv' = [inv EXCEPT ![p] = Begin("create", 0, "cp_archive")]
    /\ UNCHANGED <<runs, tasks, logs, last, faults>>

\* the bulk update that archives the prior Runs; db.commit()
CreateArchive(p) ==
    /\ inv[p].pc = "cp_archive"
    /\ runs' = ArchiveRuns(runs)
    /\ inv' = [inv EXCEPT ![p].pc = "cp_create"]
    /\ UNCHANGED <<project, tasks, logs, last, faults, ops>>

\* the bulk update raises: it stands before the try block, so the exception
\* leaves the handler at once
CreateArchiveFault(p) ==
    /\ inv[p].pc = "cp_archive"
    /\ CanFault
    /\ faults' = faults + 1
    /\ inv' = [inv EXCEPT ![p] = Fresh]
    /\ last' = Returned("create", 0, "DbError")
    /\ UNCHANGED <<project, runs, tasks, logs, ops>>

\* run = Run(project_id, status="created"); db.add(run); db.commit(); db.refresh(run)
CreateRun(p) ==
    /\ inv[p].pc = "cp_create"
    /\ runs' = Append(runs, NewRun)
    /\ inv' = [inv EXCEPT ![p].pc = "pl_plan", ![p].rid = Len(runs) + 1]
    /\ UNCHANGED <<project, tasks, logs, last, faults, ops>>

CreateRunFault(p) ==
    /\ inv[p].pc = "cp_create"
    /\ CanFault
    /\ faults' = faults + 1
    /\ inv' = [inv EXCEPT ![p].pc = "cp_finally", ![p].ex = "DbError"]
    /\ UNCHANGED <<project, runs, tasks, logs, last, ops>>

\* mutant: a failed invocation is rolled back, its new Run is deleted
CreateFinally_RolledBack(p) ==
    /\ inv[p].pc = "cp_finally"
    /\ project' = CreateCleanup(project, inv[p].ex)
    /\ IF inv[p].ex # "none" /\ inv[p].rid # 0
       THEN runs' = SubSeq(runs, 1, Len(runs) - 1) /\ tasks' = tasks
       ELSE runs' = runs /\ tasks' = tasks \o inv[p].pend
    /\ inv' = [inv EXCEPT ![p] = Fresh]
    /\ last' = Returned("create", inv[p].rid, Outcome(inv[p].ex))
    /\ UNCHANGED <<logs, faults, ops>>

\* finally: project.is_locked = False; db.commit(), which also flushes what the
\* planner left in the session
CreateFinally(p) ==
    /\ inv[p].pc = "cp_finally"
    /\ project' = CreateCleanup(project, inv[p].ex)
    /\ tasks' = tasks \o inv[p].pend
    /\ inv' = [inv EXCEPT ![p] = Fresh]
    /\ last' = Returned("create", inv[p].rid, Outcome(inv[p].ex))
    /\ UNCHANGED <<runs, logs, faults, ops>>

create_and_plan_run(p) ==
    \/ CreateConflict(p)
    \/ CreateAcquire(p)
    \/ CreateArchive(p)
    \/ CreateArchiveFault(p)
    \/ CreateRun(p)
    \/ CreateRunFault(p)
    \/ PlannerAgent_plan(p)
    \/ PlannerCommitFault(p)
    \/ CreateFinally(p)

----------------------------------------------------------------------------
(* ExecutorAgent.run (backend/app/agents/executor.py) *)

\* previous_context += f"\n---\nTask {task.order_index} Output:\n{result}"
ContextBlock(order_index, result) == [task |-> order_index, output |-> result]

\* the prompt of a task: previous_context and the sanitized input
Prompt(previous_context, input) ==
    [previous_work |-> previous_context, current_task |-> sanitize(input)]

\* the loop moves to the next loaded task, or ExecutorAgent.run returns
NextTask(i) ==
    IF i.i < Len(i.loaded)
    THEN [i EXCEPT !.pc = "ex_mark", !.i = @ + 1, !.prompt = Null,
               !.reported = 0, !.result = Null, !.usage = 0, !.e = "none"]
    ELSE [i EXCEPT !.pc = "ex_complete", !.prompt = Null,
               !.reported = 0, !.result = Null, !.usage = 0, !.e = "none"]

\* mutant: the loop has no except clause, the exception leaves the Executor
Caught_Propagates(i, e) == [i EXCEPT !.pc = "ex_finally", !.ex = e, !.e = e]

\* an exception inside the try block of the loop
Caught(i, e) == [i EXCEPT !.pc = "ex_except", !.e = e]

CurrentTask(p) == inv[p].loaded[inv[p].i]

\* the prompt built for the current task
CurrentPrompt(p) == Prompt(inv[p].previous_context, tasks[CurrentTask(p)].input)

\* task.status = "running"; db.commit()
ExecMark(p) ==
    /\ inv[p].pc = "ex_mark"
    /\ tasks' = [tasks EXCEPT ![CurrentTask(p)].status = "running"]
    /\ inv' = [inv EXCEPT ![p].pc = "ex_call"]
    /\ UNCHANGED <<project, runs, logs, last, faults, ops>>

ExecMarkFault(p) ==
    /\ inv[p].pc = "ex_mark"
    /\ CanFault
    /\ faults' = faults + 1
    /\ inv' = [inv EXCEPT ![p] = Caught(@, "DbError")]
    /\ UNCHANGED <<project, runs, tasks, logs, last, ops>>

\* prompt = f"..."; result, usage = generate_completion(prompt);
\* task.output = result; task.status = "done"; db.commit()
ExecCall(p) ==
    /\ inv[p].pc = "ex_call"
    /\ \E reply \in Replies(ExecContents) :
         LET c == generate_completion(reply) IN
         IF c.err # "none"
         THEN /\ inv' = [inv EXCEPT ![p] =
                           Caught([@ EXCEPT !.prompt = CurrentPrompt(p),
                                            !.reported = reply.total], c.err)]
              /\ UNCHANGED tasks
         ELSE /\ tasks' = [tasks EXCEPT ![CurrentTask(p)].output = c.content,
                                        ![CurrentTask(p)].status = "done"]
              /\ inv' = [inv EXCEPT ![p].pc = "ex_cost",
                                     ![p].prompt = CurrentPrompt(p),
                                     ![p].reported = reply.total,
                                     ![p].result = c.content,
                                     ![p].usage = c.usage]
    /\ UNCHANGED <<project, runs, logs, last, faults, ops>>

\* the completion succeeds and the commit of the output raises
ExecSaveFault(p) ==
    /\ inv[p].pc = "ex_call"
    /\ CanFault
    /\ faults' = faults + 1
    /\ \E reply \in Replies(ExecContents) :
         /\ generate_completion(reply).err = "none"
         /\ inv' = [inv EXCEPT ![p] =
                      Caught([@ EXCEPT !.prompt = CurrentPrompt(p),
                                       !.reported = reply.total], "DbError")]
    /\ UNCHANGED <<project, runs, tasks, logs, last, ops>>

\* mutant: the cost Log is not written
ExecCost_NoLog(p) ==
    /\ inv[p].pc = "ex_cost"
    /\ inv' = [inv EXCEPT ![p] =
                 NextTask([@ EXCEPT !.previous_context =
                              Append(@, ContextBlock(tasks[CurrentTask(p)].order_index,
                                                     inv[p].result))])]
    /\ UNCHANGED <<project, runs, tasks, logs, last, faults, ops>>

\* db.add(Log(level="cost", ...)); db.commit(); previous_context += ...
ExecCost(p) ==
    /\ inv[p].pc = "ex_cost"
    /\ logs' = Append(logs, Log(inv[p].rid, "llm", "cost",
                                [tokens_used |-> inv[p].usage]))
    /\ inv' = [inv EXCEPT ![p] =
                 NextTask([@ EXCEPT !.previous_context =
                              Append(@, ContextBlock(tasks[CurrentTask(p)].order_index,
                                                     inv[p].result))])]
    /\ UNCHANGED <<project, runs, tasks, last, faults, ops>>

ExecCostFault(p) ==
    /\ inv[p].pc = "ex_cost"
    /\ CanFault
    /\ faults' = faults + 1
    /\ inv' = [inv EXCEPT ![p] = Caught(@, "DbError")]
    /\ UNCHANGED <<project, runs, tasks, logs, last, ops>>

\* except Exception as e: db.rollback(); task.status = "pending"; db.commit();
\* db.add(Log(level="error", message=str(e))); db.commit()
ExecExcept(p) ==
    /\ inv[p].pc = "ex_except"
    /\ tasks' = [tasks EXCEPT ![CurrentTask(p)].status = "pending"]
    /\ logs' = Append(logs, Log(inv[p].rid, tasks[CurrentTask(p)].agent_type,
                                "error", [error |-> inv[p].e]))
    /\ inv' = [inv EXCEPT ![p] = NextTask(@)]
    /\ UNCHANGED <<project, runs, last, faults, ops>>

\* the first commit of the handler raises: the exception leaves ExecutorAgent.run
ExecExceptFaultReset(p) ==
    /\ inv[p].pc = "ex_except"
    /\ CanFault
    /\ faults' = faults + 1
    /\ inv' = [inv EXCEPT ![p].pc = "ex_finally", ![p].ex = "DbError"]
    /\ UNCHANGED <<project, runs, tasks, logs, last, ops>>

\* the second commit of the handler raises: the task is pending, no Log is kept
ExecExceptFaultLog(p) ==
    /\ inv[p].pc = "ex_except"
    /\ CanFault
    /\ faults' = faults + 1
    /\ tasks' = [tasks EXCEPT ![CurrentTask(p)].status = "pending"]
    /\ inv' = [inv EXCEPT ![p].pc = "ex_finally", ![p].ex = "DbError"]
    /\ UNCHANGED <<project, runs, logs, last, ops>>

ExecutorAgent_run(p) ==
    \/ ExecMark(p)
    \/ ExecMarkFault(p)
    \/ ExecCall(p)
    \/ ExecSaveFault(p)
    \/ ExecCost(p)
    \/ ExecCostFault(p)
    \/ ExecExcept(p)
    \/ ExecExceptFaultReset(p)
    \/ ExecExceptFaultLog(p)

----------------------------------------------------------------------------
(* execute_run (backend/app/api/runs.py) *)

ExecPcs == {"ex_load", "ex_mark", "ex_call", "ex_cost", "ex_except",
            "ex_complete", "ex_finally"}

\* mutant: the test of run.is_locked is missing
RunLocked_Ignored(run) == FALSE

\* if run.is_locked
RunLocked(run) == run.is_locked

\* mutant: the query does not filter on the status
IsPending_Any(t) == TRUE

\* Task.status == "pending"
IsPending(t) == t.status = "pending"

\* filter(Task.run_id == run_id, Task.status == "pending")
PendingTasks(rid) == {t \in TaskIds(rid) : IsPending(tasks[t])}

\* mutant: the flag is cleared at the end of the body instead of in finally
ExecuteCleanup_OnSuccess(run, ex) ==
    IF ex = "none" THEN [run EXCEPT !.is_locked = FALSE] ELSE run

\* finally: run.is_locked = False, whatever exception ex is in flight
ExecuteCleanup(run, ex) == [run EXCEPT !.is_locked = FALSE]

\* 409: the run is locked
ExecuteConflict(p, r) ==
    /\ Takes(p)
    /\ RunLocked(runs[r])
    /\ last' = Returned("execute", r, "Conflict")
    /\ UNCHANGED <<project, runs, tasks, logs, inv, faults, ops>>

\* run.is_locked = True; db.commit()
ExecuteAcquire(p, r) ==
    /\ Takes(p)
    /\ ~RunLocked(runs[r])
    /\ Admit
    /\ runs' = [runs EXCEPT ![r].is_locked = TRUE]
    /\ inv' = [inv EXCEPT ![p] = Begin("execute", r, "ex_load")]
    /\ UNCHANGED <<project, tasks, logs, last, faults>>

\* mutant: the test "if not tasks" is missing, the Executor gets the empty list
ExecuteEmpty_Proceeds(p) ==
    /\ inv[p].pc = "ex_load"
    /\ PendingTasks(inv[p].rid) = {}
    /\ runs' = [runs EXCEPT ![inv[p].rid].status = "running"]
    /\ inv' = [inv EXCEPT ![p].pc = "ex_complete"]
    /\ UNCHANGED <<project, tasks, logs, last, faults, ops>>

\* no pending task: HTTPException(400, "No pending tasks")
ExecuteEmpty(p) ==
    /\ inv[p].pc = "ex_load"
    /\ PendingTasks(inv[p].rid) = {}
    /\ inv' = [inv EXCEPT ![p].pc = "ex_finally", ![p].ex = "EmptyWork"]
    /\ UNCHANGED <<project, runs, tasks, logs, last, faults, ops>>

\* the pending tasks ordered by order_index (ties in any order);
\* run.status = "running"; db.commit()
ExecuteLoad(p) ==
    /\ inv[p].pc = "ex_load"
    /\ PendingTasks(inv[p].rid) # {}
    /\ \E loaded \in Orderings(PendingTasks(inv[p].rid)) :
         inv' = [inv EXCEPT ![p].pc = "ex_mark", ![p].loaded = loaded, ![p].i = 1,
                   ![p].frozen = {[id |-> t, status |-> tasks[t].status,
                                   output |-> tasks[t].output] :
                                  t \in {u \in TaskIds(inv[p].rid) :
                                            tasks[u].status # "pending"}}]
    /\ runs' = [runs EXCEPT ![inv[p].rid].status = "running"]
    /\ UNCHANGED <<project, tasks, logs, last, faults, ops>>

\* the query, or the commit of status = "running", raises
ExecuteLoadFault(p) ==
    /\ inv[p].pc = "ex_load"
    /\ CanFault
    /\ faults' = faults + 1
    /\ inv' = [inv EXCEPT ![p].pc = "ex_finally", ![p].ex = "DbError"]
    /\ UNCHANGED <<project, runs, tasks, logs, last, ops>>

\* mutant: the status becomes completed only when no task is left pending
ExecuteComplete_AllDone(p) ==
    /\ inv[p].pc = "ex_complete"
    /\ runs' = [runs EXCEPT ![inv[p].rid].status =
                   IF PendingTasks(inv[p].rid) = {} THEN "completed" ELSE @]
    /\ inv' = [inv EXCEPT ![p].pc = "ex_finally"]
    /\ UNCHANGED <<project, tasks, logs, last, faults, ops>>

\* run.status = "completed"; db.commit()
ExecuteComplete(p) ==
    /\ inv[p].pc = "ex_complete"
    /\ runs' = [runs EXCEPT ![inv[p].rid].status = "completed"]
    /\ inv' = [inv EXCEPT ![p].pc = "ex_finally"]
    /\ UNCHANGED <<project, tasks, logs, last, faults, ops>>

ExecuteCompleteFault(p) ==
    /\ inv[p].pc = "ex_complete"
    /\ CanFault
    /\ faults' = faults + 1
    /\ inv' = [inv EXCEPT ![p].pc = "ex_finally", ![p].ex = "DbError"]
    /\ UNCHANGED <<project, runs, tasks, logs, last, ops>>

\* finally: run.is_locked = False; db.commit()
ExecuteFinally(p) ==
    /\ inv[p].pc = "ex_finally"
    /\ runs' = [runs EXCEPT ![inv[p].rid] = ExecuteCleanup(@, inv[p].ex)]
    /\ inv' = [inv EXCEPT ![p] = Fresh]
    /\ last' = Returned("execute", inv[p].rid, Outcome(inv[p].ex))
    /\ UNCHANGED <<project, tasks, logs, faults, ops>>

execute_run(p) ==
    \/ \E r \in RunIds : ExecuteConflict(p, r)
    \/ \E r \in RunIds : ExecuteAcquire(p, r)
    \/ ExecuteEmpty(p)
    \/ ExecuteLoad(p)
    \/ ExecuteLoadFault(p)
    \/ ExecutorAgent_run(p)
    \/ ExecuteComplete(p)
    \/ ExecuteCompleteFault(p)
    \/ ExecuteFinally(p)

----------------------------------------------------------------------------
(* ReporterAgent.run (backend/app/agents/reporter.py): the lines it joins *)

ProjectTitle == Str("T", 1)

Line(text, arg) == [text |-> text, arg |-> arg]
Blank == Line("", Null)

\* mutant: the output is tested without .strip()
StepBlock_Unstripped(t) ==
    LET input_text == Strip(OrEmpty(t.input))
        output_text == OrEmpty(t.output)
    IN <<Blank, Line("Step (agent_type):",
                     [idx |-> t.order_index, agent_type |-> t.agent_type])>>
       \o (IF input_text.len > 0 THEN <<Line("- Instruction:", input_text)>> ELSE <<>>)
       \o (IF output_text.len > 0 THEN <<Line("- Result:", output_text)>>
           ELSE <<Line("- Result: (no output recorded)", Null)>>)

StepBlock(t) ==
    LET input_text == Strip(OrEmpty(t.input))
        output_text == Strip(OrEmpty(t.output))
    IN <<Blank, Line("Step (agent_type):",
                     [idx |-> t.order_index, agent_type |-> t.agent_type])>>
       \o (IF input_text.len > 0 THEN <<Line("- Instruction:", input_text)>> ELSE <<>>)
       \o (IF output_text.len > 0 THEN <<Line("- Result:", output_text)>>
           ELSE <<Line("- Result: (no output recorded)", Null)>>)

RECURSIVE StepBlocks(_)
StepBlocks(ts) == IF ts = <<>> THEN <<>> ELSE StepBlock(Head(ts)) \o StepBlocks(Tail(ts))

ReporterAgent_run(project_title, ts) ==
    <<Line("Summary for project:", project_title), Blank,
      Line("This run executed the following steps:", Null)>>
    \o StepBlocks(ts)
    \o <<Blank, Line("Overall, the project has been broken down ...", Null)>>

----------------------------------------------------------------------------
(* summarize_run (backend/app/api/runs.py) *)

TaskDict(t) == [order_index |-> t.order_index, agent_type |-> t.agent_type,
                input |-> t.input, output |-> t.output]

\* no task: HTTPException(400, "No tasks to summarize")
SummarizeEmpty(p, r) ==
    /\ Takes(p)
    /\ TaskIds(r) = {}
    /\ last' = Returned("summarize", r, "EmptyWork")
    /\ UNCHANGED <<project, runs, tasks, logs, inv, faults, ops>>

\* mutant: the summary is refused while a task of the run is not done
Summarize_DoneOnly(p, r) ==
    /\ Takes(p)
    /\ TaskIds(r) # {}
    /\ \A t \in TaskIds(r) : tasks[t].status = "done"
    /\ Admit
    /\ \E ordered \in Orderings(TaskIds(r)) :
         runs' = [runs EXCEPT ![r].final_summary =
                      ReporterAgent_run(ProjectTitle,
                          [k \in DOMAIN ordered |-> TaskDict(tasks[ordered[k]])]),
                              ![r].status = "summarized"]
    /\ last' = Returned("summarize", r, "ok")
    /\ UNCHANGED <<project, tasks, logs, inv, faults>>

\* the tasks of the run ordered by order_index, as dicts; the Reporter;
\* run.final_summary = summary; run.status = "summarized"; db.commit()
Summarize(p, r) ==
    /\ Takes(p)
    /\ TaskIds(r) # {}
    /\ Admit
    /\ \E ordered \in Orderings(TaskIds(r)) :
         runs' = [runs EXCEPT ![r].final_summary =
                      ReporterAgent_run(ProjectTitle,
                          [k \in DOMAIN ordered |-> TaskDict(tasks[ordered[k]])]),
                              ![r].status = "summarized"]
    /\ last' = Returned("summarize", r, "ok")
    /\ UNCHANGED <<project, tasks, logs, inv, faults>>

summarize_run(p) ==
    \/ \E r \in RunIds : SummarizeEmpty(p, r)
    \/ \E r \in RunIds : Summarize(p, r)

----------------------------------------------------------------------------

Next == \E p \in Procs : create_and_plan_run(p) \/ execute_run(p) \/ summarize_run(p)

Spec == Init /\ [][Next]_vars

----------------------------------------------------------------------------
(* Properties *)

\* the workers inside the critical section of execute_run on run r
ExecHolders(r) == {p \in Procs : inv[p].pc \in ExecPcs /\ inv[p].rid = r}

\* the workers inside the critical section of create_and_plan_run
CreateHolders == {p \in Procs : inv[p].pc \in CreatePcs}

\* the step is a request returning this outcome
Returns(op, rid, result) ==
    last' # last /\ last' = Returned(op, rid, result)

Malformed(n) == [k \in 1..n |-> "malformed"]

\* C1: when two Execute invocations on one Run overlap, one of them holds the
\* Run and processes tasks, the other returns ConflictError (which happens only
\* while the Run is held) and changes nothing, and Run.locked is false once
\* no invocation is left on the Run.
C1_ExecuteExclusive ==
    /\ [](\A r \in RunIds :
            /\ Cardinality(ExecHolders(r)) <= 1
            /\ ExecHolders(r) = {} => ~runs[r].is_locked)
    /\ [][\A r \in RunIds :
            Returns("execute", r, "Conflict")
                => ExecHolders(r) # {} /\ UNCHANGED <<db, inv>>]_vars

\* C1 witness: an Execute was refused with ConflictError while another worker,
\* past loading the tasks, is processing the same Run.
C1_Witness ==
    /\ last.op = "execute" /\ last.result = "Conflict"
    /\ \E p \in Procs : /\ inv[p].rid = last.rid
                        /\ inv[p].pc \in {"ex_mark", "ex_call", "ex_cost"}

C3_ProjectLockReleased ==
    CreateHolders = {} => ~project.is_locked

\* C4: at most one Create-and-plan invocation is inside the critical section,
\* and an invocation refused with ConflictError found Project.locked true and
\* changed nothing.
C4_CreateExclusive ==
    /\ [](Cardinality(CreateHolders) <= 1)
    /\ [][Returns("create", 0, "Conflict")
            => project.is_locked /\ UNCHANGED <<db, inv>>]_vars

\* C4 witness: a Create-and-plan was refused while another one is planning.
C4_Witness ==
    /\ last = Returned("create", 0, "Conflict")
    /\ \E p \in Procs : inv[p].pc = "pl_plan"

\* C5: in every reachable state the Project has at most one Run with
\* archived = false.
C5_OneLiveRun ==
    Cardinality({r \in RunIds : ~runs[r].is_archived}) <= 1

\* C5 witness: a second Run exists after the planning of the first one failed;
\* the first is archived and the second is not.
C5_Witness ==
    /\ Len(runs) >= 2
    /\ runs[1].is_archived /\ runs[1].status = "created"
    /\ ~runs[2].is_archived

\* C6 (as claimed): malformed JSON on calls 1 to 3 and valid JSON on call 4
\* ends in StructuralError; malformed on calls 1 and 2 and valid on call 3
\* does not.
C6_FourthCallRejected ==
    \A p \in Procs : inv[p].pc = "cp_finally" =>
        /\ inv[p].hist = Malformed(3) \o <<"json">> => inv[p].ex = "StructuralError"
        /\ inv[p].hist = Malformed(2) \o <<"json">> => inv[p].ex # "StructuralError"

\* a response that describes tasks, each with both keys and a numeric index
IsPlan(text) ==
    /\ ParseOk(text)
    /\ text.json.type = "dict"
    /\ "arr" \in DOMAIN text.json.tasks
    /\ text.json.tasks.arr # <<>>
    /\ \A k \in DOMAIN text.json.tasks.arr :
         LET t == text.json.tasks.arr[k] IN HasKeys(t) /\ CanInt(t.order_index)

\* C6 (amended): plan fails with StructuralError exactly when the first call
\* and all 3 corrections returned malformed JSON; valid JSON on call 3 or on
\* call 4 is accepted, and a well-formed plan received there is carried out
\* (unless the commit itself fails).
C6_FourthCallAccepted ==
    \A p \in Procs : inv[p].pc = "cp_finally" =>
        /\ inv[p].ex = "StructuralError" <=> inv[p].hist = Malformed(MAX_REFINES + 1)
        /\ inv[p].hist \in {Malformed(3) \o <<"json">>, Malformed(2) \o <<"json">>}
             /\ IsPlan(inv[p].current)
             => inv[p].ex \in {"none", "DbError"}

\* C6 witness: three malformed responses, a valid one on call 4, and the plan
\* went through.
C6_Witness ==
    \E p \in Procs : /\ inv[p].pc = "cp_finally"
                     /\ inv[p].hist = Malformed(3) \o <<"json">>
                     /\ inv[p].ex = "none"
                     /\ TaskIds(inv[p].rid) # {}

\* C7: after a Create-and-plan that failed with StructuralError the Run has no
\* Task, its status is created, and Project.locked is false (unless a later
\* Create-and-plan is in flight).
C7_StructuralErrorLeavesNothing ==
    \A r \in RunIds : last = Returned("create", r, "StructuralError") =>
        /\ TaskIds(r) = {}
        /\ runs[r].status = "created"
        /\ CreateHolders = {} => ~project.is_locked

\* C7 witness: a Create-and-plan has returned StructuralError.
C7_Witness ==
    \E r \in RunIds : /\ last = Returned("create", r, "StructuralError")
                      /\ CreateHolders = {}

\* the Task rows the spec describes for a returned list: one per element with
\* both keys, in list order
ExpectedTask(rid, t) ==
    [run_id |-> rid, agent_type |-> "executor", status |-> "pending",
     input |-> IF t.input.len > 4000 THEN [ch |-> t.input.ch, len |-> 4000]
               ELSE t.input,
     output |-> Null, order_index |-> t.order_index.half \div 2]

RECURSIVE ExpectedTasks(_, _)
ExpectedTasks(rid, elems) ==
    IF elems = <<>> THEN <<>>
    ELSE (IF HasKeys(Head(elems)) THEN <<ExpectedTask(rid, Head(elems))>> ELSE <<>>)
         \o ExpectedTasks(rid, Tail(elems))

HasTaskList(text) ==
    /\ ParseOk(text)
    /\ text.json.type = "dict"
    /\ "arr" \in DOMAIN text.json.tasks
    /\ text.json.tasks.arr # <<>>

Keyed(elems) == {k \in DOMAIN elems : HasKeys(elems[k])}

\* C8 (as claimed): valid JSON on the first call yields exactly one Task for
\* each element of the list that carries both keys.
C8_OneTaskPerKeyedElement ==
    \A p \in Procs :
        /\ inv[p].pc = "cp_finally"
        /\ inv[p].hist = <<"json">>
        /\ HasTaskList(inv[p].current)
        /\ inv[p].ex # "DbError"
        => Cardinality(TaskIds(inv[p].rid)) + Len(inv[p].pend)
             = Cardinality(Keyed(inv[p].current.json.tasks.arr))

\* C8 (amended): given valid JSON on the first call whose keyed elements all
\* have an order_index that int() accepts, plan raises nothing (unless its
\* commit fails) and appends exactly one Task per keyed element, in list
\* order, none for the others, each with status pending, agent_type
\* "executor", the index as an integer and the input cut at 4000 characters.
C8_ValidPlanCreatesTasks ==
    /\ [](\A p \in Procs :
            /\ inv[p].pc = "cp_finally"
            /\ inv[p].hist = <<"json">>
            /\ HasTaskList(inv[p].current)
            /\ \A k \in Keyed(inv[p].current.json.tasks.arr) :
                 CanInt(inv[p].current.json.tasks.arr[k].order_index)
            => inv[p].ex \in {"none", "DbError"})
    /\ [][\A p \in Procs :
            /\ inv[p].pc = "pl_plan"
            /\ inv'[p].pc = "cp_finally"
            /\ inv'[p].hist = <<"json">>
            /\ inv'[p].ex = "none"
            => tasks' = tasks \o ExpectedTasks(inv[p].rid,
                                               inv'[p].current.json.tasks.arr)]_vars

\* C8 witness: the plan <<E2, NoIdx, E1>> came on the first call; two Tasks
\* exist for the Run, the first with its input cut to 4000 characters.
C8_Witness ==
    \E p \in Procs :
        /\ inv[p].pc = "cp_finally"
        /\ inv[p].hist = <<"json">>
        /\ inv[p].ex = "none"
        /\ inv[p].current = JDict(JArr(<<E2, NoIdx, E1>>))
        /\ Cardinality(TaskIds(inv[p].rid)) = 2
        /\ \E t \in TaskIds(inv[p].rid) : tasks[t].input.len = 4000

\* the blocks of the done tasks of the Run that precede task t, ascending
ExpectedContext(rid, t) ==
    LET before == {u \in TaskIds(rid) : /\ tasks[u].status = "done"
                                        /\ tasks[u].order_index < tasks[t].order_index}
        ordered == CHOOSE s \in Orderings(before) : TRUE
    IN [k \in 1..Cardinality(before) |->
          ContextBlock(tasks[ordered[k]].order_index, tasks[ordered[k]].output)]

DistinctIndexes(rid) ==
    \A t, u \in TaskIds(rid) : t # u => tasks[t].order_index # tasks[u].order_index

\* C9 (as claimed): the rolling context embedded in the prompt of task k, in a
\* first or a resumed Execute, is exactly the outputs of the done tasks of the
\* Run with a smaller order_index, in ascending order (stated for Runs whose
\* indexes are distinct and for runs of the system without database faults).
C9_ContextHoldsAllPriorOutputs ==
    \A p \in Procs :
        inv[p].prompt # Null /\ DistinctIndexes(inv[p].rid) /\ faults = 0
        => inv[p].prompt.previous_work = ExpectedContext(inv[p].rid, CurrentTask(p))

\* C10: while an Execute is in flight, every Task of the Run that was not
\* pending when the tasks were loaded keeps its status and its output.
C10_NonPendingUntouched ==
    \A p \in Procs : inv[p].pc \in ExecPcs =>
        \A f \in inv[p].frozen :
            tasks[f.id].status = f.status /\ tasks[f.id].output = f.output

\* C10 witness: a resumed Execute has processed its only pending task to done
\* while an earlier done task of the Run was left alone.
C10_Witness ==
    \E p \in Procs :
        /\ inv[p].pc = "ex_complete"
        /\ Len(inv[p].loaded) = 1
        /\ tasks[inv[p].loaded[1]].status = "done"
        /\ \E f \in inv[p].frozen :
             /\ f.status = "done"
             /\ tasks[f.id].order_index < tasks[inv[p].loaded[1]].order_index

----------------------------------------------------------------------------
(* Task failures inside Execute *)

----------------------------------------------------------------------------
(* Run status *)

\* the position of a status in created, planned, running, completed, summarized
Rank(status) ==
    CASE status = "created" -> 1
      [] status = "planned" -> 2
      [] status = "running" -> 3
      [] status = "completed" -> 4
      [] status = "summarized" -> 5

\* C12 (as claimed): no step moves the status of a Run to an earlier value of
\* the order created, planned, running, completed, summarized.
C12_StatusNeverMovesBack ==
    [][\A r \in RunIds : Rank(runs'[r].status) >= Rank(runs[r].status)]_vars

----------------------------------------------------------------------------
(* Execute without pending work *)

NoPendingTask(r) == \A t \in TaskIds(r) : tasks[t].status # "pending"

\* C13: an Execute that finds no pending Task of the Run fails with
\* EmptyWorkError (unless the query itself raises); it never enters the task
\* loop, so it makes no completion call; its steps change no Task, no Log and
\* not the Run's status, only Run.locked, which is false again when it returns.
C13_EmptyWorkChangesNothing ==
    /\ [](\A p \in Procs : inv[p].pc = "ex_finally" /\ inv[p].ex = "EmptyWork"
            => inv[p].loaded = <<>> /\ inv[p].i = 0 /\ inv[p].prompt = Null)
    /\ [][\A p \in Procs :
            /\ inv[p].pc = "idle" /\ inv'[p].pc = "ex_load"
                 => /\ runs' = [runs EXCEPT ![inv'[p].rid].is_locked = TRUE]
                    /\ UNCHANGED <<project, tasks, logs>>
            /\ inv[p].pc = "ex_load" /\ NoPendingTask(inv[p].rid) /\ inv'[p] # inv[p]
                 => /\ inv'[p].pc = "ex_finally"
                    /\ inv'[p].ex \in {"EmptyWork", "DbError"}
                    /\ UNCHANGED db
            /\ inv[p].pc = "ex_finally" /\ inv[p].ex = "EmptyWork" /\ inv'[p] # inv[p]
                 => /\ last' = Returned("execute", inv[p].rid, "EmptyWork")
                    /\ runs' = [runs EXCEPT ![inv[p].rid].is_locked = FALSE]
                    /\ UNCHANGED <<project, tasks, logs>>]_vars

\* C13 witness: Execute on a Run whose Tasks are all done has returned
\* EmptyWorkError and the Run is unlocked.
C13_Witness ==
    /\ last.op = "execute" /\ last.result = "EmptyWork"
    /\ last.rid \in RunIds
    /\ TaskIds(last.rid) # {}
    /\ \A t \in TaskIds(last.rid) : tasks[t].status = "done"
    /\ ~runs[last.rid].is_locked
    /\ ExecHolders(last.rid) = {}

----------------------------------------------------------------------------
(* Summarize *)

\* the summaries Summarize can store for run r, given its Tasks as they are
SummariesOf(r) ==
    {ReporterAgent_run(ProjectTitle,
                       [k \in DOMAIN ordered |-> TaskDict(tasks[ordered[k]])])
       : ordered \in Orderings(TaskIds(r))}

\* the step is a successful Summarize on run r
SummarizeStep(r) ==
    /\ ops' = ops + 1 /\ UNCHANGED inv
    /\ last' = Returned("summarize", r, "ok")

\* C14 (as claimed): a Summarize on a Run that is as a Summarize has just left
\* it (status summarized, final_summary a summary of the Tasks as they are)
\* leaves the same final_summary and status.
C14_SummarizeIdempotent ==
    [][\A r \in RunIds :
         /\ SummarizeStep(r)
         /\ runs[r].status = "summarized"
         /\ runs[r].final_summary \in SummariesOf(r)
         => runs'[r] = runs[r]]_vars

----------------------------------------------------------------------------
(* ReporterAgent.run on its own: the task list is drawn freely, tasks holds  *)
(* the list of dicts passed in and runs receives the summary returned.       *)

MaxReportTasks == 2

\* the dicts of the input list: output null, empty, blank or a text
ReportDicts ==
    [order_index : {1, 2}, agent_type : {"executor"},
     input : {Null, Str("a", 5)},
     output : {Null, EmptyStr, Str(" ", 2), Str("x", 1)}]

ReportInputs ==
    UNION {[1..n -> ReportDicts] : n \in 0..MaxReportTasks}

ReporterInit ==
    /\ project = [is_locked |-> FALSE]
    /\ runs = <<>>
    /\ tasks \in ReportInputs
    /\ logs = <<>>
    /\ inv = [p \in Procs |-> Fresh]
    /\ last = Returned("none", 0, "none")
    /\ faults = 0
    /\ ops = 0

\* summary = ReporterAgent().run(project_title, tasks)
ReporterApply ==
    /\ runs = <<>>
    /\ runs' = <<[NewRun EXCEPT !.final_summary = ReporterAgent_run(ProjectTitle, tasks)]>>
    /\ UNCHANGED <<project, tasks, logs, inv, last, faults, ops>>

ReporterNext == ReporterApply

SpecReporter == ReporterInit /\ [][ReporterNext]_vars

\* the lines of a summary that open a step block, in ascending position
StepLines(out) == {j \in DOMAIN out : out[j].text = "Step (agent_type):"}

\* the first and the last line of the k-th step block of a summary; a blank
\* line stands before each block and before the closing statement
StepStart(out, k) ==
    CHOOSE j \in StepLines(out) : Cardinality({h \in StepLines(out) : h < j}) = k - 1

StepEnd(out, k) ==
    IF k < Cardinality(StepLines(out)) THEN StepStart(out, k + 1) - 2 ELSE Len(out) - 2

Placeholder == "- Result: (no output recorded)"

\* an output that is null, empty or made of blanks
EmptyOutput(o) == o = Null \/ o.len = 0 \/ o.ch = " "

\* C15: the summary starts with the header naming the project and ends with
\* the closing statement; between them stands one step block per input task,
\* in input order; for the empty list nothing stands between them; the block
\* of a task holds the placeholder exactly when the task's output is empty.
C15_ReporterBlocks ==
    runs # <<>> =>
        LET out == runs[1].final_summary
            n == Len(tasks)
        IN /\ SubSeq(out, 1, 3) = <<[text |-> "Summary for project:", arg |-> ProjectTitle],
                                    [text |-> "", arg |-> Null],
                                    [text |-> "This run executed the following steps:",
                                     arg |-> Null]>>
           /\ SubSeq(out, Len(out) - 1, Len(out))
                = <<[text |-> "", arg |-> Null],
                    [text |-> "Overall, the project has been broken down ...",
                     arg |-> Null]>>
           /\ Cardinality(StepLines(out)) = n
           /\ n = 0 => Len(out) = 5
           /\ \A k \in 1..n :
                /\ out[StepStart(out, k)].arg.idx = tasks[k].order_index
                /\ StepStart(out, k) = (IF k = 1 THEN 5 ELSE StepEnd(out, k - 1) + 2)
                /\ out[StepStart(out, k) - 1] = [text |-> "", arg |-> Null]
                /\ (\E j \in StepStart(out, k)..StepEnd(out, k) :
                       out[j].text = Placeholder)
                   <=> EmptyOutput(tasks[k].output)
                /\ (\E j \in StepStart(out, k)..StepEnd(out, k) :
                       out[j] = [text |-> "- Result:", arg |-> tasks[k].output])
                   <=> ~EmptyOutput(tasks[k].output)

\* C15 witness: a list of two tasks was summarized, the first with a blank
\* output (placeholder), the second with a text.
C15_Witness ==
    /\ runs # <<>> /\ Len(tasks) = 2
    /\ tasks[1].output = Str(" ", 2) /\ tasks[2].output = Str("x", 1)
    /\ Cardinality({j \in DOMAIN runs[1].final_summary :
                      runs[1].final_summary[j].text = Placeholder}) = 1

----------------------------------------------------------------------------
(* Task status *)

TaskMoves == {<<"pending", "running">>, <<"running", "done">>, <<"running", "pending">>}

\* C16 (as claimed): the status of a Task changes only from pending to running,
\* from running to done and from running to pending, and a Task that is done
\* keeps its status and its output in every step.
C16_DoneIsFinal ==
    [][\A t \in DOMAIN tasks :
         /\ tasks'[t].status # tasks[t].status
              => <<tasks[t].status, tasks'[t].status>> \in TaskMoves
         /\ tasks[t].status = "done"
              => tasks'[t].status = "done" /\ tasks'[t].output = tasks[t].output]_vars

----------------------------------------------------------------------------
(* Planned Runs *)

\* C17 (as claimed): a Run whose status is planned has at least one Task.
C17_PlannedHasTask ==
    \A r \in RunIds : runs[r].status = "planned" => TaskIds(r) # {}

----------------------------------------------------------------------------
(* Completion calls of the Planner *)

\* C18: plan has made at most 4 completion calls, and every call but the
\* last returned a response that failed to parse: a correction is called for
\* only after a malformed response and no call follows a response that
\* parses (or a call that raised).
C18_AtMostFourCalls ==
    \A p \in Procs : inv[p].pc = "cp_finally" =>
        /\ Len(inv[p].hist) <= 4
        /\ \A k \in 1..(Len(inv[p].hist) - 1) : inv[p].hist[k] = "malformed"

\* C18 witness: plan used all 4 calls, and the last response was malformed too.
C18_Witness ==
    \E p \in Procs : /\ inv[p].pc = "cp_finally"
                     /\ inv[p].hist = <<"malformed", "malformed", "malformed", "malformed">>
                     /\ inv[p].ex = "StructuralError"

----------------------------------------------------------------------------
(* Order of processing *)

\* worker p marks its current task running in this step
MarksRunning(p) == inv[p].pc = "ex_mark" /\ inv'[p].pc = "ex_call"

RunningTasks(r) == {t \in TaskIds(r) : tasks[t].status = "running"}

\* C19 (as claimed): within one Execute the tasks are marked running in
\* strictly ascending order_index, each only after the previous task of the
\* invocation has become done or pending again (stated for invocations that
\* met no database fault), and at most one Task of a Run is running in any
\* state.
C19_StrictlyAscendingOneRunning ==
    /\ [](\A r \in RunIds : Cardinality(RunningTasks(r)) <= 1)
    /\ [][\A p \in Procs : MarksRunning(p) /\ inv[p].i > 1 /\ faults = 0 =>
            LET prev == inv[p].loaded[inv[p].i - 1] IN
            /\ tasks[prev].order_index < tasks[CurrentTask(p)].order_index
            /\ tasks[prev].status \in {"done", "pending"}]_vars

----------------------------------------------------------------------------
(* Completion calls and Log entries per task *)

TaskPcs == {"ex_mark", "ex_call", "ex_cost", "ex_except"}

\* worker p is done with its current task in this step
LeavesTask(p) ==
    /\ inv[p].pc \in {"ex_cost", "ex_except"}
    /\ inv'[p].pc \in {"ex_mark", "ex_complete", "ex_finally"}

\* the step appends one Log to the Run of p that matches the final status of
\* p's current task
AppendsTaskLog(p) ==
    /\ Len(logs') = Len(logs) + 1
    /\ logs'[Len(logs')].run_id = inv[p].rid
    /\ \/ /\ logs'[Len(logs')].level = "cost"
          /\ tasks'[CurrentTask(p)].status = "done"
       \/ /\ logs'[Len(logs')].level = "error"
          /\ tasks'[CurrentTask(p)].status = "pending"

LogsKept == \A k \in DOMAIN logs : k \in DOMAIN logs' /\ logs'[k] = logs[k]

\* C20 (as claimed): every task an Execute has processed got exactly one
\* completion call and exactly one Log entry, cost if it is done and error if
\* it is pending; Log entries are only appended.
C20_OneCallOneLogPerTask ==
    [][/\ LogsKept
       /\ \A p \in Procs :
            /\ LeavesTask(p) => inv[p].prompt # Null /\ AppendsTaskLog(p)
            /\ inv[p].pc \in TaskPcs /\ inv'[p] # inv[p] /\ ~LeavesTask(p)
                 => logs' = logs]_vars

\* C20 (amended): at most one completion call is made per task, none only when
\* marking the task running raised; when the loop moves on from a task
\* exactly one Log entry is appended for it, cost if it is done and error if
\* it is pending; no other step of the task writes a Log; the task is left
\* without a Log only when a commit of the failure handler raises, which
\* ends the invocation; Log entries are only appended.
C20_AtMostOneCallOneLogPerTask ==
    [][/\ LogsKept
       /\ \A p \in Procs :
            /\ inv'[p].prompt # inv[p].prompt /\ inv'[p].prompt # Null
                 => inv[p].prompt = Null /\ inv[p].pc = "ex_call"
            /\ LeavesTask(p) /\ inv'[p].pc # "ex_finally"
                 => /\ AppendsTaskLog(p)
                    /\ inv[p].prompt = Null => inv[p].e = "DbError"
            /\ LeavesTask(p) /\ inv'[p].pc = "ex_finally"
                 => /\ inv[p].pc = "ex_except"
                    /\ faults' = faults + 1
                    /\ logs' = logs
            /\ inv[p].pc \in TaskPcs /\ inv'[p] # inv[p] /\ ~LeavesTask(p)
                 => logs' = logs]_vars

\* C20 witness: an Execute returned after one task ended done and one ended
\* pending; the Run has one cost Log and one error Log.
C20_Witness ==
    /\ last.op = "execute" /\ last.result = "ok" /\ last.rid \in RunIds
    /\ \E t, u \in TaskIds(last.rid) :
         tasks[t].status = "done" /\ tasks[u].status = "pending"
    /\ Cardinality({k \in DOMAIN logs : logs[k].run_id = last.rid
                                        /\ logs[k].level = "cost"}) = 1
    /\ Cardinality({k \in DOMAIN logs : logs[k].run_id = last.rid
                                        /\ logs[k].level = "error"}) = 1
    /\ Len(logs) = 2

----------------------------------------------------------------------------
(* The token cap *)

TokenLimitError == "RuntimeError: Token limit exceeded"

\* worker p receives the response of the completion call of its task
ReceivesResponse(p) == inv[p].reported = 0 /\ inv'[p].reported # 0

\* C21: a completion reporting more than 8000 total_tokens is a failure: the
\* task is not marked done, its output is not stored, and the failure handler
\* resets it to pending and appends an error Log; a completion reporting 8000
\* or fewer is accepted: the task becomes done with its output (unless the
\* commit raises) and the cost Log records the reported total_tokens.
C21_TokenCap ==
    [][\A p \in Procs :
        /\ ReceivesResponse(p) /\ inv'[p].reported > 8000
             => /\ inv'[p].pc = "ex_except" /\ inv'[p].e = TokenLimitError
                /\ UNCHANGED tasks
        /\ ReceivesResponse(p) /\ inv'[p].reported <= 8000
             => \/ /\ inv'[p].pc = "ex_cost"
                   /\ tasks'[CurrentTask(p)].status = "done"
                   /\ tasks'[CurrentTask(p)].output = inv'[p].result
                   /\ inv'[p].usage = inv'[p].reported
                \/ /\ inv'[p].pc = "ex_except" /\ inv'[p].e = "DbError"
                   /\ UNCHANGED tasks
        /\ inv[p].pc = "ex_except" /\ inv[p].e = TokenLimitError
                                   /\ inv'[p].pc \in {"ex_mark", "ex_complete"}
             => /\ inv[p].reported > 8000
                /\ tasks'[CurrentTask(p)].status = "pending"
                /\ tasks'[CurrentTask(p)].output = tasks[CurrentTask(p)].output
                /\ logs' = Append(logs, [run_id |-> inv[p].rid, agent_type |-> "executor",
                                         level |-> "error",
                                         message |-> [error |-> TokenLimitError]])
        /\ inv[p].pc = "ex_cost" /\ inv'[p].pc \in {"ex_mark", "ex_complete"}
             => /\ inv[p].reported <= 8000
                /\ tasks'[CurrentTask(p)].status = "done"
                /\ logs' = Append(logs, [run_id |-> inv[p].rid, agent_type |-> "llm",
                                         level |-> "cost",
                                         message |-> [tokens_used |-> inv[p].reported]])]_vars

\* C21 witness: one task is done with a cost Log of exactly 8000 tokens and
\* another was reset to pending, without output, with the token limit error.
C21_Witness ==
    /\ \E k \in DOMAIN logs : logs[k].level = "cost"
                              /\ logs[k].message = [tokens_used |-> 8000]
    /\ \E k \in DOMAIN logs : logs[k].level = "error"
                              /\ logs[k].message = [error |-> TokenLimitError]
    /\ \E t, u \in DOMAIN tasks :
         /\ tasks[t].status = "done" /\ tasks[t].output = Str("x", 1)
         /\ tasks[u].status = "pending" /\ tasks[u].output = Null

----------------------------------------------------------------------------
(* Uniqueness of order_index *)

\* C22 (as claimed): in every reachable state the order_index values of the
\* Tasks of one Run are integers (non-null) and pairwise distinct, whatever
\* task list the completion service returned to the Planner.
C22_OrderIndexesDistinct ==
    \A r \in RunIds :
        /\ \A t \in TaskIds(r) : tasks[t].order_index \in Int
        /\ DistinctIndexes(r)

----------------------------------------------------------------------------
(* The frame of Summarize *)

\* a Summarize request on run r can be served and succeeds
SummarizeSucceeds(r) == ENABLED (\E p \in Procs : Summarize(p, r))

\* a Summarize request on run r can be served and fails with EmptyWorkError
SummarizeFailsEmpty(r) == ENABLED (\E p \in Procs : SummarizeEmpty(p, r))

\* C23: Summarize on a Run with no Task fails with EmptyWorkError and changes
\* nothing; Summarize on a Run with a Task succeeds whatever the statuses of its
\* Tasks and whatever the lock and archive flags, and changes only the Run's
\* final_summary and status: no Task, no Log, no other Run, and neither
\* Run.locked, Run.archived nor Project.locked.
C23_SummarizeFrame ==
    /\ [](\A r \in RunIds :
            (\E p \in Procs : Idle(p)) /\ ops < MaxOps
               => IF TaskIds(r) = {}
                  THEN SummarizeFailsEmpty(r) /\ ~SummarizeSucceeds(r)
                  ELSE SummarizeSucceeds(r) /\ ~SummarizeFailsEmpty(r))
    /\ [][\A r \in RunIds :
            /\ Returns("summarize", r, "EmptyWork")
                 => TaskIds(r) = {} /\ UNCHANGED <<project, runs, tasks, logs>>
            /\ SummarizeStep(r)
                 => /\ TaskIds(r) # {}
                    /\ UNCHANGED <<project, tasks, logs>>
                    /\ DOMAIN runs' = DOMAIN runs
                    /\ \A q \in RunIds \ {r} : runs'[q] = runs[q]
                    /\ runs'[r].is_locked = runs[r].is_locked
                    /\ runs'[r].is_archived = runs[r].is_archived
                    /\ runs'[r].status = "summarized"
                    /\ runs'[r].final_summary \in SummariesOf(r)]_vars

\* C23 witness: a Summarize has just succeeded on a Run that an Execute holds,
\* with one Task running and another still pending.
C23_Witness ==
    \E r \in RunIds :
        /\ last = Returned("summarize", r, "ok")
        /\ runs[r].status = "summarized" /\ runs[r].is_locked
        /\ \E t, u \in TaskIds(r) : tasks[t].status = "running"
                                    /\ tasks[u].status = "pending"

----------------------------------------------------------------------------
(* Process crashes: a worker dies inside a critical section.  Its finally
   block does not run, its session and local variables are lost, and what it
   committed stays in the store.                                             *)

MaxCrashes == 1

Crashed(p) == inv[p].pc = "crashed"

CanCrash == Cardinality({p \in Procs : Crashed(p)}) < MaxCrashes

Dead(p) == [Fresh EXCEPT !.pc = "crashed", !.op = inv[p].op, !.rid = inv[p].rid]

\* mutant: the dying worker still clears run.is_locked
CrashExecute_Cleanup(p) ==
    /\ inv[p].pc \in ExecPcs
    /\ CanCrash
    /\ runs' = [runs EXCEPT ![inv[p].rid].is_locked = FALSE]
    /\ inv' = [inv EXCEPT ![p] = Dead(p)]
    /\ UNCHANGED <<project, tasks, logs, last, faults, ops>>

\* the worker dies between run.is_locked = True; db.commit() and the finally
\* block of execute_run
CrashExecute(p) ==
    /\ inv[p].pc \in ExecPcs
    /\ CanCrash
    /\ inv' = [inv EXCEPT ![p] = Dead(p)]
    /\ UNCHANGED <<project, runs, tasks, logs, last, faults, ops>>

\* the worker dies between project.is_locked = True; db.commit() and the
\* finally block of create_and_plan_run
CrashCreate(p) ==
    /\ inv[p].pc \in CreatePcs
    /\ CanCrash
    /\ inv' = [inv EXCEPT ![p] = Dead(p)]
    /\ UNCHANGED <<project, runs, tasks, logs, last, faults, ops>>

NextCrash ==
    \E p \in Procs :
        \/ create_and_plan_run(p) \/ execute_run(p) \/ summarize_run(p)
        \/ CrashExecute(p)
        \/ CrashCreate(p)

SpecCrash == Init /\ [][NextCrash]_vars

\* the Runs whose Execute invocation died holding Run.locked
OrphanedRuns == {inv[p].rid : p \in {q \in Procs : Crashed(q) /\ inv[q].op = "execute"}}

\* the Create-and-plan invocation died holding Project.locked
OrphanedProject == \E p \in Procs : Crashed(p) /\ inv[p].op = "create"

\* a worker enters the critical section of op (on run r for execute)
Enters(op, Pcs, r) ==
    \E q \in Procs : Idle(q) /\ inv'[q].pc \in Pcs /\ inv'[q].op = op
                     /\ (op = "execute" => inv'[q].rid = r)

\* C24: once a process has crashed between setting and clearing a lock flag,
\* the flag stays true in every later state, whatever operations follow: every
\* later Execute on that Run (Create-and-plan on that Project) can only fail
\* with ConflictError, and none enters the critical section.
C24_CrashLeavesLockForever ==
    /\ [](\A r \in OrphanedRuns :
            /\ runs[r].is_locked
            /\ (\E q \in Procs : Idle(q))
                 => /\ ENABLED (\E q \in Procs : ExecuteConflict(q, r))
                    /\ ~ENABLED (\E q \in Procs : ExecuteAcquire(q, r)))
    /\ [](OrphanedProject
            => /\ project.is_locked
               /\ (\E q \in Procs : Idle(q))
                    => /\ ENABLED (\E q \in Procs : CreateConflict(q))
                       /\ ~ENABLED (\E q \in Procs : CreateAcquire(q)))
    /\ [][/\ \A r \in OrphanedRuns :
               /\ ~Enters("execute", ExecPcs, r)
               /\ last' # last /\ last'.op = "execute" /\ last'.rid = r
                    => last'.result = "Conflict"
          /\ OrphanedProject
               => /\ ~Enters("create", CreatePcs, 0)
                  /\ last' # last /\ last'.op = "create"
                       => last'.result = "Conflict"]_vars

\* C24 witness: an Execute died holding the Run, nothing runs any more, the
\* Run is still locked, and the last request, an Execute on it, got Conflict.
C24_Witness ==
    \E r \in OrphanedRuns :
        /\ runs[r].is_locked
        /\ \A p \in Procs : Crashed(p) \/ Idle(p)
        /\ last = Returned("execute", r, "Conflict")

----------------------------------------------------------------------------
(* Failures inside planning *)

\* the last request was a Create-and-plan that created run r and then failed
FailedInPlanning(r) ==
    /\ last.op = "create" /\ last.rid = r
    /\ last.result \notin {"ok", "Conflict"}

\* C25 (as claimed): whenever Create-and-plan fails inside planning, for any
\* reason, no Task of the new Run is persisted and the Run's status remains
\* created (stated for runs of the system without database faults).
C25_FailedPlanPersistsNoTask ==
    \A r \in RunIds :
        FailedInPlanning(r) /\ faults = 0
            => TaskIds(r) = {} /\ runs[r].status = "created"

\* the step is the return of a Create-and-plan that created a Run and failed
CreateFails == /\ last' # last /\ last'.op = "create" /\ last'.rid # 0
               /\ last'.result \notin {"ok", "Conflict"}

\* C26: a Create-and-plan that acquired the Project lock, created its Run and
\* failed in planning is not rolled back: when it returns, its Run is the last
\* Run of the Project, has status created and is the only Run that is not
\* archived; every Run that existed before is archived.
C26_FailedCreateNotRolledBack ==
    [][CreateFails =>
         /\ last'.rid = Len(runs')
         /\ runs'[last'.rid].status = "created"
         /\ ~runs'[last'.rid].is_archived
         /\ \A q \in 1..Len(runs') : q # last'.rid => runs'[q].is_archived]_vars

\* C26 witness: the second Create-and-plan has failed in planning; the Run of
\* the first, which was planned, is archived, the new Run is not.
C26_Witness ==
    /\ last.op = "create" /\ last.rid = 2
    /\ last.result \notin {"ok", "Conflict", "DbError"}
    /\ runs[1].status = "planned" /\ runs[1].is_archived
    /\ runs[2].status = "created" /\ ~runs[2].is_archived

----------------------------------------------------------------------------
(* Completed Runs with pending Tasks *)

\* C27: when the Executor has returned, Execute sets the Run's status to
\* completed (where its commit succeeds) however many tasks failed, so a Run
\* can be completed with all its Tasks pending; on a Run that is not locked
\* and has a pending Task an Execute is accepted, whatever the Run's status
\* and archived flag, and it loads and goes through exactly the pending Tasks.
C27_CompletedWhateverFailed ==
    /\ [](\A r \in RunIds :
            /\ ~runs[r].is_locked /\ PendingTasks(r) # {}
            /\ (\E q \in Procs : Idle(q)) /\ ops < MaxOps
            => /\ ENABLED (\E q \in Procs : ExecuteAcquire(q, r))
               /\ ~ENABLED (\E q \in Procs : ExecuteConflict(q, r)))
    /\ [](\A p \in Procs :
            inv[p].pc = "ex_load" /\ PendingTasks(inv[p].rid) # {}
            => ENABLED ExecuteLoad(p) /\ ~ENABLED ExecuteEmpty(p))
    /\ [][\A p \in Procs :
            /\ inv[p].pc = "ex_complete" /\ inv'[p].pc = "ex_finally"
                                         /\ inv'[p].ex = "none"
                 => runs'[inv[p].rid].status = "completed"
            /\ inv[p].pc = "ex_load" /\ inv'[p].pc = "ex_mark"
                 => /\ Range(inv'[p].loaded) = PendingTasks(inv[p].rid)
                    /\ Len(inv'[p].loaded) = Cardinality(PendingTasks(inv[p].rid))
            /\ inv[p].pc # "ex_complete" /\ inv'[p].pc = "ex_complete"
                 => inv[p].i = Len(inv[p].loaded)]_vars

\* C27 witness: the Run is completed with both its Tasks pending (each failed
\* and was reset), and a later Execute on it has been accepted.
C27_Witness ==
    \E p \in Procs :
        /\ inv[p].pc = "ex_load"
        /\ runs[inv[p].rid].status = "completed"
        /\ Cardinality(TaskIds(inv[p].rid)) = 2
        /\ \A t \in TaskIds(inv[p].rid) : tasks[t].status = "pending"
        /\ Cardinality({k \in DOMAIN logs : logs[k].level = "error"}) = 2

----------------------------------------------------------------------------
(* The status running and the Run lock *)

====
